---- MODULE Spec2Model ----
(***************************************************************************)
(* A model of itk_transformer_nlp/transformer_qa.py: batched extractive    *)
(* question answering with a fine-tuned BART model.                        *)
(*                                                                         *)
(* Conventions.                                                            *)
(*  - A Python str is a sequence of one-character strings.                 *)
(*  - A tensor of shape (batch_size, sequence_length) is a sequence of     *)
(*    rows, each a sequence of integers; index j of a row stands for       *)
(*    position j-1 of the tensor.                                          *)
(*  - Optional[int] is <<>> for None and <<m>> for the integer m.          *)
(*  - Every operation has its own specification (SpecInt, SpecTok,         *)
(*    SpecExtract, SpecClean, Spec); the variables of the other            *)
(*    operations stay at their idle values.                                *)
(***************************************************************************)
EXTENDS Integers, Sequences, FiniteSets, TLC

VARIABLES
    pc,               \* position of the running operation
    raised,           \* name of the exception that left the operation, or "none"
    input_int,        \* check_positive_int: the argument
    returned_int,     \* check_positive_int: the value returned, <<>> before
    text_col_names,   \* tokenize_dataset: argument
    batch_size,       \* tokenize_dataset: argument
    max_seq_length,   \* tokenize_dataset: argument (Optional[int])
    remove_old_cols,  \* tokenize_dataset: argument
    dataset,          \* tokenize_dataset: the rows of the Dataset object
    columns,          \* tokenize_dataset: the column names of the Dataset object
    mapped,           \* tokenize_dataset: number of rows dataset.map has tokenized
    truncation,       \* tokenize_dataset: truncation= arguments the tokenizer got
    model_max_length, \* tokenizer.model_max_length (Optional[int])
    loader,           \* tokenize_dataset: batches of the returned DataLoader
    input_ids,        \* extract_answer: argument; get_predictions: local
    start_scores,     \* extract_answer: argument
    end_scores,       \* extract_answer: argument
    answers,          \* extract_answer: the tensor returned; get_predictions: local
    decoded_batch,    \* clean_decoded_batch: argument (in get_predictions too)
    clean_batch,      \* clean_decoded_batch: the value returned
    data_loader,      \* get_predictions: argument, a sequence of batches
    batch_no,         \* get_predictions: index of the batch the loop is at
    row_no,           \* get_predictions: index of the zip element to yield next
    logits,           \* get_predictions: what the model returned, batch by batch
    model_calls,      \* get_predictions: number of model calls, batch by batch
    decoded_inputs,   \* get_predictions: local of the current iteration
    decoded_answers,  \* get_predictions: local of the current iteration
    yielded           \* get_predictions: the tuples yielded so far

vars == <<pc, raised, input_int, returned_int, text_col_names, batch_size,
          max_seq_length, remove_old_cols, dataset, columns, mapped, truncation,
          model_max_length, loader, input_ids, start_scores, end_scores, answers,
          decoded_batch, clean_batch, data_loader, batch_no, row_no, logits,
          model_calls, decoded_inputs, decoded_answers, yielded>>

intVars == <<input_int, returned_int>>
tokVars == <<text_col_names, batch_size, max_seq_length, remove_old_cols,
             dataset, columns, mapped, truncation, model_max_length, loader>>
extVars == <<input_ids, start_scores, end_scores, answers>>
clnVars == <<decoded_batch, clean_batch>>
predVars == <<data_loader, batch_no, row_no, logits, model_calls,
              decoded_inputs, decoded_answers, yielded>>

None == <<>>
Some(m) == <<m>>

----------------------------------------------------------------------------
(* Bounds of the model.                                                    *)

MaxStrLen == 3      \* longest command-line string given to check_positive_int
MaxInt == 3         \* largest |n| of an int given to check_positive_int
MaxCells == 4       \* extract_answer: most elements of an input tensor
MaxRows == 3        \* tokenize_dataset: most rows of the dataset
MaxBatchSize == 2   \* tokenize_dataset: largest batch_size
MaxSeqLength == 8   \* tokenize_dataset: largest max_seq_length
MaxExamples == 2    \* get_predictions: most examples behind the data loader
MaxSeqs == 2        \* clean_decoded_batch: most sequences of a decoded batch
MaxSubseqs == 2     \* clean_decoded_batch: most subsequences of a sequence

----------------------------------------------------------------------------
(* Sequences.                                                              *)

RECURSIVE SeqsUpTo(_, _)
SeqsUpTo(S, n) ==
    IF n = 0 THEN {<<>>}
    ELSE LET shorter == SeqsUpTo(S, n - 1)
         IN shorter \cup {Append(s, x) : s \in {t \in shorter : Len(t) = n - 1}, x \in S}

RECURSIVE Concat(_)
Concat(ss) == IF ss = <<>> THEN <<>> ELSE Head(ss) \o Concat(Tail(ss))

\* The element of a one-element set.  Only({F(x) : x \in {e}}) is F(e) with e
\* evaluated once: TLC evaluates an operator's argument again at every use
\* when it evaluates ENABLED, which the nested text operators cannot afford.
Only(S) == CHOOSE x \in S : TRUE

StartsWith(s, i, t) ==
    /\ i + Len(t) - 1 <= Len(s)
    /\ \A k \in 1..Len(t) : s[i + k - 1] = t[k]

----------------------------------------------------------------------------
(* check_positive_int                                                      *)

ArgChars == {"-", "0", "1", "a"}
Digits == {"0", "1"}
DigitValue(c) == IF c = "1" THEN 1 ELSE 0

IntInputs ==
    {[kind |-> "int", num |-> n, str |-> <<>>] : n \in (-MaxInt)..MaxInt}
    \cup {[kind |-> "str", num |-> 0, str |-> s] : s \in SeqsUpTo(ArgChars, MaxStrLen)}

RECURSIVE DecimalValue(_)
DecimalValue(ds) ==
    IF ds = <<>> THEN 0
    ELSE 10 * DecimalValue(SubSeq(ds, 1, Len(ds) - 1)) + DigitValue(ds[Len(ds)])

\* int(x): an int is returned as is; a str must be an optional sign followed
\* by one or more decimal digits, anything else raises ValueError.
PyInt(x) ==
    IF x.kind = "int" THEN [ok |-> TRUE, val |-> x.num]
    ELSE LET s == x.str
             neg == s # <<>> /\ s[1] = "-"
             ds == IF neg THEN Tail(s) ELSE s
         IN IF ds # <<>> /\ \A k \in 1..Len(ds) : ds[k] \in Digits
            THEN [ok |-> TRUE, val |-> IF neg THEN 0 - DecimalValue(ds) ELSE DecimalValue(ds)]
            ELSE [ok |-> FALSE, val |-> 0]

IdleInt ==
    /\ input_int = [kind |-> "int", num |-> 0, str |-> <<>>]
    /\ returned_int = None

IdleTok ==
    /\ text_col_names = <<>>
    /\ batch_size = 0
    /\ max_seq_length = None
    /\ remove_old_cols = FALSE
    /\ dataset = <<>>
    /\ columns = {}
    /\ mapped = 0
    /\ truncation = {}
    /\ model_max_length = None
    /\ loader = <<>>

IdleExtract ==
    /\ input_ids = <<>>
    /\ start_scores = <<>>
    /\ end_scores = <<>>
    /\ answers = <<>>

IdleClean ==
    /\ decoded_batch = <<>>
    /\ clean_batch = <<>>

IdlePred ==
    /\ data_loader = <<>>
    /\ batch_no = 0
    /\ row_no = 0
    /\ logits = <<>>
    /\ model_calls = <<>>
    /\ decoded_inputs = <<>>
    /\ decoded_answers = <<>>
    /\ yielded = <<>>

InitInt ==
    /\ pc = "cpi_call"
    /\ raised = "none"
    /\ input_int \in IntInputs
    /\ returned_int = None
    /\ IdleTok /\ IdleExtract /\ IdleClean /\ IdlePred

CheckPositiveInt ==
    /\ pc = "cpi_call"
    /\ LET n == PyInt(input_int)
       IN \/ /\ ~n.ok
             /\ raised' = "ValueError"
             /\ returned_int' = None
             /\ pc' = "cpi_raised"
          \/ /\ n.ok
             /\ n.val <= 0
             /\ raised' = "ValueError"
             /\ returned_int' = None
             /\ pc' = "cpi_raised"
          \/ /\ n.ok
             /\ n.val > 0
             /\ raised' = "none"
             /\ returned_int' = Some(n.val)
             /\ pc' = "cpi_returned"
    /\ UNCHANGED <<input_int, tokVars, extVars, clnVars, predVars>>

NextInt == CheckPositiveInt
SpecInt == InitInt /\ [][NextInt]_vars

----------------------------------------------------------------------------
(* The tokenizer: the special tokens of the pre-trained BART vocabulary    *)
(* and a few ordinary entries standing for the rest of it.                 *)

cls_token_id == 0
pad_token_id == 1
sep_token_id == 2

cls_token == <<"<", "s", ">">>
pad_token == <<"<", "p", "a", "d", ">">>
sep_token == <<"<", "/", "s", ">">>

\* id -> the text the token decodes to
Vocab ==
    (cls_token_id :> cls_token) @@ (pad_token_id :> pad_token) @@
    (sep_token_id :> sep_token) @@
    (3 :> <<"a">>) @@ (4 :> <<" ", "b">>) @@ (5 :> <<"<">>) @@ (6 :> <<"s", ">">>)

Whitespace == {" "}

----------------------------------------------------------------------------
(* extract_answer                                                          *)

MaxOf(row) == CHOOSE v \in {row[k] : k \in 1..Len(row)} : \A k \in 1..Len(row) : row[k] <= v

\* torch.argmax over the last dimension: the position (from 0) of the first
\* maximal value of the row.
ArgMax(row) ==
    (CHOOSE k \in 1..Len(row) :
        /\ row[k] = MaxOf(row)
        /\ \A l \in 1..(k - 1) : row[l] # MaxOf(row)) - 1

\* torch.arange(seq_length).repeat(batch_size, 1)
ArangeRepeat(seq_length, batch) ==
    [i \in 1..batch |-> [j \in 1..seq_length |-> j - 1]]

\* SpanMask with the end position left out of the span
SpanMaskOpenEnd(answer_start, answer_end, mask) ==
    [i \in 1..Len(mask) |->
        [j \in 1..Len(mask[i]) |->
            answer_start[i] <= mask[i][j] /\ mask[i][j] < answer_end[i]]]

\* answer_start <= mask and mask <= answer_end, element by element, with the
\* (batch_size, 1) tensors broadcast along the row
SpanMask(answer_start, answer_end, mask) ==
    [i \in 1..Len(mask) |->
        [j \in 1..Len(mask[i]) |->
            answer_start[i] <= mask[i][j] /\ mask[i][j] <= answer_end[i]]]

\* torch.where(mask, ids, pad)
Where(mask, ids, pad) ==
    [i \in 1..Len(mask) |->
        [j \in 1..Len(mask[i]) |-> IF mask[i][j] THEN ids[i][j] ELSE pad]]

extract_answer(ids, starts, ends, pad) ==
    LET batch == Len(ids)
        seq_length == Len(ids[1])
        answer_start == [i \in 1..batch |-> ArgMax(starts[i])]
        answer_end == [i \in 1..batch |-> ArgMax(ends[i])]
        mask == SpanMask(answer_start, answer_end, ArangeRepeat(seq_length, batch))
    IN Where(mask, ids, pad)

----------------------------------------------------------------------------
(* decode_bart_input and clean_decoded_batch                               *)

\* tokenizer.batch_decode: every row becomes the concatenation of the texts
\* of its tokens, special tokens included.
DecodeRow(row) == Concat([j \in 1..Len(row) |-> Vocab[row[j]]])
batch_decode(ids) == [i \in 1..Len(ids) |-> DecodeRow(ids[i])]

\* str.split(sep): the pieces between the leftmost non-overlapping
\* occurrences of sep, empty pieces kept.
RECURSIVE Split(_, _)
Split(s, sep) ==
    LET hits == {i \in 1..Len(s) : StartsWith(s, i, sep)}
    IN IF hits = {} THEN <<s>>
       ELSE LET i == CHOOSE h \in hits : \A g \in hits : h <= g
            IN Only({<<SubSeq(s, 1, i - 1)>> \o Split(rest, sep) :
                        rest \in {SubSeq(s, i + Len(sep), Len(s))}})

\* tuple(tuple(seq.split(sep_token)) for seq in outputs)
decode_bart_input(ids) ==
    LET outputs == batch_decode(ids)
    IN [i \in 1..Len(outputs) |-> Only({Split(seq, sep_token) : seq \in {outputs[i]}})]

\* re.compile("|".join([cls, pad, sep])): the alternatives, tried in order
cleaning_pattern == <<cls_token, pad_token, sep_token>>

\* pattern.sub("", s) from position i on: one pass from the left; at each
\* position the first alternative that matches is dropped and the scan goes
\* on behind it, otherwise the character is kept.
RECURSIVE SubFrom(_, _, _)
SubFrom(pattern, s, i) ==
    IF i > Len(s) THEN <<>>
    ELSE LET alts == {k \in 1..Len(pattern) : StartsWith(s, i, pattern[k])}
         IN IF alts # {}
            THEN Only({SubFrom(pattern, s, next) :
                        next \in {i + Len(pattern[CHOOSE k \in alts : \A l \in alts : k <= l])}})
            ELSE Only({<<s[i]>> \o SubFrom(pattern, s, next) : next \in {i + 1}})

PatternSub(pattern, s) == SubFrom(pattern, s, 1)

\* str.strip()
RECURSIVE LStrip(_)
LStrip(s) == IF s # <<>> /\ Head(s) \in Whitespace THEN LStrip(Tail(s)) ELSE s
RECURSIVE RStrip(_)
RStrip(s) ==
    IF s # <<>> /\ s[Len(s)] \in Whitespace THEN RStrip(SubSeq(s, 1, Len(s) - 1)) ELSE s
Strip(s) == LStrip(RStrip(s))

CleanSubseq(pattern, subseq) == Strip(PatternSub(pattern, subseq))

\* the filter of the generator expression left out
KeepAll(cleaned) == TRUE

\* tuple(cleaned for subseq in seq if (cleaned := ...)): an empty cleaned
\* string is falsy and is left out.
KeepCleaned(cleaned) == cleaned # <<>>
CleanSeq(pattern, seq) ==
    LET cleaned == [k \in 1..Len(seq) |->
                        Only({CleanSubseq(pattern, subseq) : subseq \in {seq[k]}})]
    IN SelectSeq(cleaned, KeepCleaned)

clean_decoded_batch(batch, pattern) ==
    [i \in 1..Len(batch) |-> CleanSeq(pattern, batch[i])]

----------------------------------------------------------------------------
(* extract_answer applied to every tensor of at most MaxCells elements     *)

SeqsOfLen(S, n) == {s \in SeqsUpTo(S, n) : Len(s) = n}
Tensors(S, b, n) == SeqsOfLen(SeqsOfLen(S, n), b)
Shapes == {sh \in (1..MaxCells) \X (1..MaxCells) : sh[1] * sh[2] <= MaxCells}

ExtractIds == {pad_token_id, 3}
ScoreValues == {0, 1}

InitExtract ==
    /\ pc = "ea_call"
    /\ raised = "none"
    /\ \E sh \in Shapes :
        /\ input_ids \in Tensors(ExtractIds, sh[1], sh[2])
        /\ start_scores \in Tensors(ScoreValues, sh[1], sh[2])
        /\ end_scores \in Tensors(ScoreValues, sh[1], sh[2])
    /\ answers = <<>>
    /\ IdleInt /\ IdleTok /\ IdleClean /\ IdlePred

ExtractAnswer ==
    /\ pc = "ea_call"
    /\ answers' = extract_answer(input_ids, start_scores, end_scores, pad_token_id)
    /\ pc' = "ea_returned"
    /\ UNCHANGED <<raised, input_ids, start_scores, end_scores,
                   intVars, tokVars, clnVars, predVars>>

NextExtract == ExtractAnswer
SpecExtract == InitExtract /\ [][NextExtract]_vars

----------------------------------------------------------------------------
(* clean_decoded_batch applied to decoded batches                          *)

\* pieces of decoded text: "", "<s>a" and " b<pad>"
SubseqSamples ==
    { <<>>, cls_token \o <<"a">>, <<" ", "b">> \o pad_token }

InitClean ==
    /\ pc = "cdb_call"
    /\ raised = "none"
    /\ decoded_batch \in SeqsUpTo(SeqsUpTo(SubseqSamples, MaxSubseqs), MaxSeqs)
    /\ clean_batch = <<>>
    /\ IdleInt /\ IdleTok /\ IdleExtract /\ IdlePred

CleanDecodedBatch ==
    /\ pc = "cdb_call"
    /\ clean_batch' = clean_decoded_batch(decoded_batch, cleaning_pattern)
    /\ pc' = "cdb_returned"
    /\ UNCHANGED <<raised, decoded_batch, intVars, tokVars, extVars, predVars>>

NextClean == CleanDecodedBatch
SpecClean == InitClean /\ [][NextClean]_vars

----------------------------------------------------------------------------
(* tokenize_dataset                                                        *)

Min(a, b) == IF a <= b THEN a ELSE b

\* the value tokenizer.model_max_length has after BartTokenizer.from_pretrained
PretrainedMaxLength == 1024

\* tokenizer("Dummy text").keys() of a BART tokenizer
tokenizer_cols == {"input_ids", "attention_mask"}

\* set(text_col_names) & tokenizer_cols
Collides(names, cols) == {names[k] : k \in 1..Len(names)} \cap cols # {}

\* One example as the tokenizer builds it from one text or from a pair of
\* texts: <s> A </s>  or  <s> A </s></s> B </s>.  A text is given by the ids
\* of its tokens.
EncodeOne(texts) ==
    IF Len(texts) = 1
    THEN <<cls_token_id>> \o texts[1] \o <<sep_token_id>>
    ELSE <<cls_token_id>> \o texts[1] \o <<sep_token_id, sep_token_id>>
         \o texts[2] \o <<sep_token_id>>

\* truncation=True with model_max_length m: a sequence of n > m tokens
\* loses its last n - m tokens
TruncateIds(ids, mml) ==
    IF mml = None THEN ids ELSE SubSeq(ids, 1, Min(mml[1], Len(ids)))

PadTo(ids, n, fill) == ids \o [k \in 1..(n - Len(ids)) |-> fill]

LongestOf(rows) ==
    CHOOSE n \in {Len(rows[i]) : i \in 1..Len(rows)} :
        \A i \in 1..Len(rows) : Len(rows[i]) <= n

\* tokenizer(*text_cols, padding=True, truncation=True) on a batch: text_cols
\* holds one list of texts per text column; every example is encoded, cut to
\* model_max_length and padded to the longest example of the batch.
Tokenize(text_cols, mml) ==
    LET rows == [i \in 1..Len(text_cols[1]) |->
                    TruncateIds(EncodeOne([c \in 1..Len(text_cols) |-> text_cols[c][i]]), mml)]
    IN [i \in 1..Len(rows) |->
            [input_ids |-> PadTo(rows[i], LongestOf(rows), pad_token_id),
             attention_mask |-> PadTo([k \in 1..Len(rows[i]) |-> 1], LongestOf(rows), 0)]]

\* tok_func on the examples lo..hi of the dataset
tok_func(examples, names, mml) ==
    LET text_cols == [c \in 1..Len(names) |->
                        [i \in 1..Len(examples) |-> examples[i][names[c]]]]
    IN Tokenize(text_cols, mml)

\* the number of rows dataset.map hands to one call of tok_func
MapBatchSize(bs) == bs

\* the batches the DataLoader delivers: consecutive rows, bs at a time, in
\* dataset order (no shuffling, the last batch may be smaller), stacked column
\* by column
DataLoaderStrideOff(bs) == bs + 1
DataLoaderStride(bs) == bs
DataLoaderBatches(rows, bs) ==
    LET stride == DataLoaderStride(bs)
        n == (Len(rows) + stride - 1) \div stride
    IN [b \in 1..n |->
            LET part == SubSeq(rows, (b - 1) * stride + 1, Min(b * stride, Len(rows)))
            IN [input_ids |-> [i \in 1..Len(part) |-> part[i].input_ids],
                attention_mask |-> [i \in 1..Len(part) |-> part[i].attention_mask]]]

TextSamples == {<<3>>, <<3, 4, 3>>}
DatasetColumns == {"question", "context"}
DatasetRows ==
    {[question |-> q, context |-> c, input_ids |-> <<>>, attention_mask |-> <<>>] :
        q \in TextSamples, c \in {<<4>>}}
ColNameLists ==
    LET names == DatasetColumns \cup tokenizer_cols
    IN {<<n>> : n \in names} \cup (names \X names)

InitTok ==
    /\ pc = "td_call"
    /\ raised = "none"
    /\ text_col_names \in ColNameLists
    /\ batch_size \in 1..MaxBatchSize
    /\ max_seq_length \in {None} \cup {Some(m) : m \in 1..MaxSeqLength}
    /\ remove_old_cols \in BOOLEAN
    /\ dataset \in SeqsUpTo(DatasetRows, MaxRows)
    /\ columns = DatasetColumns
    /\ mapped = 0
    /\ truncation = {}
    /\ model_max_length = Some(PretrainedMaxLength)
    /\ loader = <<>>
    /\ IdleInt /\ IdleExtract /\ IdleClean /\ IdlePred

\* CheckColumns with tokenizer.model_max_length assigned before the check
CheckColumnsLate ==
    /\ pc = "td_call"
    /\ model_max_length' = max_seq_length
    /\ \/ /\ Collides(text_col_names, tokenizer_cols)
          /\ raised' = "ValueError"
          /\ pc' = "td_raised"
       \/ /\ ~Collides(text_col_names, tokenizer_cols)
          /\ pc' = "td_map"
          /\ UNCHANGED raised
    /\ UNCHANGED <<text_col_names, batch_size, max_seq_length, remove_old_cols,
                   dataset, columns, mapped, truncation, loader,
                   intVars, extVars, clnVars, predVars>>

\* lines 100-104: the check of the column names, then the assignment of
\* tokenizer.model_max_length
CheckColumns ==
    /\ pc = "td_call"
    /\ \/ /\ Collides(text_col_names, tokenizer_cols)
          /\ raised' = "ValueError"
          /\ pc' = "td_raised"
          /\ UNCHANGED model_max_length
       \/ /\ ~Collides(text_col_names, tokenizer_cols)
          /\ model_max_length' = max_seq_length
          /\ pc' = "td_map"
          /\ UNCHANGED raised
    /\ UNCHANGED <<text_col_names, batch_size, max_seq_length, remove_old_cols,
                   dataset, columns, mapped, truncation, loader,
                   intVars, extVars, clnVars, predVars>>

\* dataset.map(tok_func, batched=True, batch_size=batch_size): one call of
\* tok_func on the next batch_size rows.  The tokenizer is always called with
\* truncation=True; when model_max_length is None there is no length to
\* truncate to, and the call either fails or truncates nothing.
MapBatch ==
    /\ pc = "td_map"
    /\ mapped < Len(dataset)
    /\ LET hi == Min(mapped + MapBatchSize(batch_size), Len(dataset))
           out == tok_func(SubSeq(dataset, mapped + 1, hi), text_col_names, model_max_length)
       IN /\ truncation' = truncation \cup {TRUE}
          /\ \/ /\ model_max_length = None
                /\ raised' = "TypeError"
                /\ pc' = "td_raised"
                /\ UNCHANGED <<dataset, mapped>>
             \/ /\ dataset' = [i \in 1..Len(dataset) |->
                                IF i > mapped /\ i <= hi
                                THEN [dataset[i] EXCEPT
                                        !.input_ids = out[i - mapped].input_ids,
                                        !.attention_mask = out[i - mapped].attention_mask]
                                ELSE dataset[i]]
                /\ mapped' = hi
                /\ UNCHANGED <<raised, pc>>
    /\ UNCHANGED <<text_col_names, batch_size, max_seq_length, remove_old_cols,
                   columns, model_max_length, loader,
                   intVars, extVars, clnVars, predVars>>

\* the end of dataset.map (remove_columns=cols_to_remove), set_format and the
\* DataLoader that is returned
ReturnLoader ==
    /\ pc = "td_map"
    /\ mapped = Len(dataset)
    /\ columns' = (IF remove_old_cols THEN {} ELSE columns) \cup tokenizer_cols
    /\ loader' = DataLoaderBatches(dataset, batch_size)
    /\ pc' = "td_returned"
    /\ UNCHANGED <<raised, text_col_names, batch_size, max_seq_length, remove_old_cols,
                   dataset, mapped, truncation, model_max_length,
                   intVars, extVars, clnVars, predVars>>

NextTok == CheckColumns \/ MapBatch \/ ReturnLoader
SpecTok == InitTok /\ [][NextTok]_vars

----------------------------------------------------------------------------
(* get_predictions                                                         *)

\* (question, context) pairs, each text given by the ids of its tokens; the
\* second question is the text "<<s>s>"
PredExamples ==
    {[question |-> <<3>>, context |-> <<4>>, input_ids |-> <<>>, attention_mask |-> <<>>],
     [question |-> <<5, cls_token_id, 6>>, context |-> <<3>>,
      input_ids |-> <<>>, attention_mask |-> <<>>]}

\* the DataLoader tokenize_dataset builds from the examples
LoaderOf(examples, bs) ==
    LET n == (Len(examples) + bs - 1) \div bs
        tokenized == Concat([b \in 1..n |->
            tok_func(SubSeq(examples, (b - 1) * bs + 1, Min(b * bs, Len(examples))),
                     <<"question", "context">>, None)])
    IN DataLoaderBatches(tokenized, bs)

\* score rows the model may return for a row of n tokens: one position
\* scored above the rest, or every position from TiedFrom on sharing the
\* highest score
PeakPosition == 2
TiedFrom == 5
ModelScores(n) ==
    {[j \in 1..n |-> IF j = PeakPosition THEN 1 ELSE 0],
     [j \in 1..n |-> IF j >= TiedFrom THEN 1 ELSE 0]}

\* zip(decoded_inputs, decoded_answers) with the answers taken from the end
ZipReversed(a, b) ==
    [i \in 1..Min(Len(a), Len(b)) |-> <<a[i], b[Min(Len(a), Len(b)) + 1 - i]>>]

\* zip(decoded_inputs, decoded_answers)
Zip(a, b) == [i \in 1..Min(Len(a), Len(b)) |-> <<a[i], b[i]>>]

InitPred ==
    /\ pc = "gp_loop"
    /\ raised = "none"
    /\ \E examples \in SeqsUpTo(PredExamples, MaxExamples), bs \in 1..MaxBatchSize :
        data_loader = LoaderOf(examples, bs)
    /\ batch_no = 1
    /\ row_no = 0
    /\ logits = <<>>
    /\ model_calls = [b \in 1..Len(data_loader) |-> 0]
    /\ decoded_inputs = <<>>
    /\ decoded_answers = <<>>
    /\ yielded = <<>>
    /\ IdleInt /\ IdleTok /\ IdleExtract /\ IdleClean

\* The body of the loop runs statement by statement; input_ids, answers and
\* the value decode_bart_input hands to clean_decoded_batch (decoded_batch)
\* are its locals.

\* lines 204-208: the loop takes the next batch, the model is called on it
\* and the answers are extracted from its input ids
CallModel ==
    /\ pc = "gp_loop"
    /\ batch_no <= Len(data_loader)
    /\ LET ids == data_loader[batch_no].input_ids
       IN /\ input_ids' = ids
          /\ \E start_logits, end_logits \in SeqsOfLen(ModelScores(Len(ids[1])), Len(ids)) :
                /\ logits' = Append(logits, [start |-> start_logits, end |-> end_logits])
                /\ answers' = extract_answer(ids, start_logits, end_logits, pad_token_id)
    /\ model_calls' = [model_calls EXCEPT ![batch_no] = @ + 1]
    /\ pc' = "gp_decode_inputs"
    /\ UNCHANGED <<raised, data_loader, batch_no, row_no, decoded_inputs, decoded_answers,
                   yielded, start_scores, end_scores, intVars, tokVars, clnVars>>

\* line 209, the argument: decode_bart_input(input_ids, tokenizer)
DecodeInputs ==
    /\ pc = "gp_decode_inputs"
    /\ decoded_batch' = decode_bart_input(input_ids)
    /\ pc' = "gp_clean_inputs"
    /\ UNCHANGED <<raised, predVars, intVars, tokVars, extVars, clean_batch>>

\* line 209, the call: decoded_inputs = clean_decoded_batch(..., cleaning_pattern)
CleanInputs ==
    /\ pc = "gp_clean_inputs"
    /\ decoded_inputs' = clean_decoded_batch(decoded_batch, cleaning_pattern)
    /\ pc' = "gp_decode_answers"
    /\ UNCHANGED <<raised, data_loader, batch_no, row_no, logits, model_calls,
                   decoded_answers, yielded, intVars, tokVars, extVars, clnVars>>

\* line 210, the argument: decode_bart_input(answers, tokenizer)
DecodeAnswers ==
    /\ pc = "gp_decode_answers"
    /\ decoded_batch' = decode_bart_input(answers)
    /\ pc' = "gp_clean_answers"
    /\ UNCHANGED <<raised, predVars, intVars, tokVars, extVars, clean_batch>>

\* line 210, the call: decoded_answers = clean_decoded_batch(..., cleaning_pattern)
CleanAnswers ==
    /\ pc = "gp_clean_answers"
    /\ decoded_answers' = clean_decoded_batch(decoded_batch, cleaning_pattern)
    /\ row_no' = 1
    /\ pc' = "gp_yield"
    /\ UNCHANGED <<raised, data_loader, batch_no, logits, model_calls,
                   decoded_inputs, yielded, intVars, tokVars, extVars, clnVars>>

\* lines 211-212: the next element of the zip is yielded; after the last one
\* the loop goes on to the next batch
Yield ==
    /\ pc = "gp_yield"
    /\ LET pairs == Zip(decoded_inputs, decoded_answers)
       IN /\ yielded' = Append(yielded, pairs[row_no][1] \o pairs[row_no][2])
          /\ \/ /\ row_no < Len(pairs)
                /\ row_no' = row_no + 1
                /\ UNCHANGED <<pc, batch_no>>
             \/ /\ row_no = Len(pairs)
                /\ row_no' = 0
                /\ batch_no' = batch_no + 1
                /\ pc' = "gp_loop"
    /\ UNCHANGED <<raised, data_loader, logits, model_calls, decoded_inputs,
                   decoded_answers, intVars, tokVars, extVars, clnVars>>

\* the data loader is exhausted: the generator returns
Return ==
    /\ pc = "gp_loop"
    /\ batch_no > Len(data_loader)
    /\ pc' = "gp_done"
    /\ UNCHANGED <<raised, predVars, intVars, tokVars, extVars, clnVars>>

Init == InitPred
Next ==
    \/ CallModel
    \/ DecodeInputs
    \/ CleanInputs
    \/ DecodeAnswers
    \/ CleanAnswers
    \/ Yield
    \/ Return
Spec == Init /\ [][Next]_vars
\* the consumer (the for loop of main) asks for the next tuple until the
\* generator is exhausted
FairSpec == Spec /\ WF_vars(Next)

----------------------------------------------------------------------------
(* Claims about the pure functions                                         *)

\* p (counted from 0) is the argmax of the row: the first position that
\* holds the largest value
IsArgMax(row, p) ==
    /\ \A k \in 1..Len(row) : row[k] <= row[p + 1]
    /\ \A k \in 1..p : row[k] < row[p + 1]

\* C2: extract_answer returns a tensor of the shape of input_ids whose value
\* at row i, position j is input_ids[i][j] when
\* argmax(start_scores[i]) <= j <= argmax(end_scores[i]) and pad_token_id
\* otherwise; the positions kept in a row form one contiguous interval.
C2_ExtractAnswerMasksSpan ==
    pc = "ea_returned" =>
        /\ Len(answers) = Len(input_ids)
        /\ \A i \in 1..Len(input_ids) :
            LET n == Len(input_ids[i])
            IN /\ Len(answers[i]) = n
               /\ \A s, e \in 0..(n - 1) :
                    (IsArgMax(start_scores[i], s) /\ IsArgMax(end_scores[i], e)) =>
                        \A j \in 0..(n - 1) :
                            answers[i][j + 1] =
                                IF s <= j /\ j <= e THEN input_ids[i][j + 1]
                                ELSE pad_token_id
               /\ \A j1, j2, j3 \in 1..n :
                    (/\ j1 < j2
                     /\ j2 < j3
                     /\ answers[i][j1] # pad_token_id
                     /\ answers[i][j3] # pad_token_id) =>
                        answers[i][j2] = input_ids[i][j2]

\* a batch of two rows, one of which keeps a token and masks another one out
C2_Witness ==
    /\ pc = "ea_returned"
    /\ Len(input_ids) = 2
    /\ \E i \in 1..Len(input_ids) : \E j, k \in 1..Len(input_ids[i]) :
        /\ answers[i][j] # pad_token_id
        /\ input_ids[i][k] # pad_token_id
        /\ answers[i][k] = pad_token_id

C4_PositiveIntOrTypeError ==
    (pc # "cpi_call" /\ PyInt(input_int).ok) =>
        LET n == PyInt(input_int)
        IN IF n.val > 0
           THEN raised = "none" /\ returned_int = Some(n.val)
           ELSE raised = "TypeError"

----------------------------------------------------------------------------
(* Claims about tokenize_dataset                                           *)

AnyNameIsTokenizerColumn ==
    \E k \in 1..Len(text_col_names) :
        text_col_names[k] \in {"input_ids", "attention_mask"}

\* C5: tokenize_dataset raises ValueError whenever a name of text_col_names
\* is a column the tokenizer returns, before changing anything (nothing is
\* mapped, no column is removed, tokenizer.model_max_length keeps its value);
\* when no name collides this check raises no ValueError.
C5_CollisionRaisesBeforeAnyChange ==
    /\ AnyNameIsTokenizerColumn =>
        /\ pc \in {"td_call", "td_raised"}
        /\ pc = "td_raised" => raised = "ValueError"
        /\ mapped = 0
        /\ \A i \in 1..Len(dataset) : dataset[i].input_ids = <<>>
        /\ columns = DatasetColumns
        /\ truncation = {}
        /\ loader = <<>>
        /\ model_max_length = Some(PretrainedMaxLength)
    /\ ~AnyNameIsTokenizerColumn => raised # "ValueError"

\* the ValueError has been raised for a non-empty dataset and a
\* max_seq_length that differs from the tokenizer's model_max_length
C5_Witness ==
    /\ pc = "td_raised"
    /\ raised = "ValueError"
    /\ AnyNameIsTokenizerColumn
    /\ Len(dataset) > 0
    /\ max_seq_length # None

\* the tokens an example has before padding and truncation
FullLength(row) ==
    Len(EncodeOne([c \in 1..Len(text_col_names) |-> row[text_col_names[c]]]))
RECURSIVE SumSeq(_)
SumSeq(q) == IF q = <<>> THEN 0 ELSE Head(q) + SumSeq(Tail(q))

\* C6: with max_seq_length = m every token-id sequence of every batch of the
\* returned DataLoader has at most m tokens; with max_seq_length not
\* specified truncation is not used and no sequence is shortened.
C6_TruncationOnlyWhenAsked ==
    /\ (pc = "td_returned" /\ max_seq_length # None) =>
        \A b \in 1..Len(loader) : \A i \in 1..Len(loader[b].input_ids) :
            Len(loader[b].input_ids[i]) <= max_seq_length[1]
    /\ max_seq_length = None =>
        /\ TRUE \notin truncation
        /\ pc = "td_returned" =>
            \A i \in 1..Len(dataset) :
                SumSeq(dataset[i].attention_mask) = FullLength(dataset[i])

\* C9: every mini-batch of the returned DataLoader is rectangular: all its
\* token-id sequences (and attention masks) have one length, for any dataset
\* size and batch_size.
C9_BatchesRectangular ==
    pc = "td_returned" =>
        \A b \in 1..Len(loader) :
            \A i, k \in 1..Len(loader[b].input_ids) :
                /\ Len(loader[b].input_ids[i]) = Len(loader[b].input_ids[k])
                /\ Len(loader[b].attention_mask[i]) = Len(loader[b].input_ids[k])

\* two batches of different widths, one of them with a padded row beside an
\* unpadded one
C9_Witness ==
    /\ pc = "td_returned"
    /\ \E b, c \in 1..Len(loader) :
        /\ Len(loader[b].input_ids[1]) # Len(loader[c].input_ids[1])
        /\ \E i, k \in 1..Len(loader[b].input_ids) :
            /\ pad_token_id \in {loader[b].input_ids[i][j] : j \in 1..Len(loader[b].input_ids[i])}
            /\ pad_token_id \notin {loader[b].input_ids[k][j] : j \in 1..Len(loader[b].input_ids[k])}

----------------------------------------------------------------------------
(* Claims about get_predictions                                            *)

\* the rows of the data loader and of the logits, in dataset order
LoaderRows == Concat([b \in 1..Len(data_loader) |-> data_loader[b].input_ids])
StartRows == Concat([b \in 1..Len(logits) |-> logits[b].start])
EndRows == Concat([b \in 1..Len(logits) |-> logits[b].end])

\* the ids of the predicted span of one example, everything else padding
SpanOf(ids, starts, ends) ==
    LET first == {p \in 0..(Len(ids) - 1) : IsArgMax(starts, p)}
        last == {p \in 0..(Len(ids) - 1) : IsArgMax(ends, p)}
    IN [j \in 1..Len(ids) |->
            IF \E s \in first, e \in last : s <= j - 1 /\ j - 1 <= e
            THEN ids[j] ELSE pad_token_id]

\* the cleaned, non-empty parts of the text of one row of ids
CleanedParts(ids) == CleanSeq(cleaning_pattern, Split(DecodeRow(ids), sep_token))

\* C1: every tuple yielded by get_predictions is a (question, context,
\* answer) triplet: exactly 3 strings, the cleaned question, the cleaned
\* context and the cleaned answer.
C1_YieldsTriplets ==
    \A k \in 1..Len(yielded) :
        /\ Len(yielded[k]) = 3
        /\ SubSeq(yielded[k], 1, 2) = CleanedParts(LoaderRows[k])
        /\ <<yielded[k][3]>> = CleanedParts(SpanOf(LoaderRows[k], StartRows[k], EndRows[k]))

HasToken(field, tok) == \E i \in 1..Len(field) : StartsWith(field, i, tok)

\* C7: every field of every yielded tuple is non-empty, has no leading or
\* trailing whitespace and contains no occurrence of the cls, pad or sep
\* token string.
C7_NoSpecialTokenEmitted ==
    \A k \in 1..Len(yielded) : \A f \in 1..Len(yielded[k]) :
        LET field == yielded[k][f]
        IN /\ field # <<>>
           /\ field[1] \notin Whitespace
           /\ field[Len(field)] \notin Whitespace
           /\ ~HasToken(field, cls_token)
           /\ ~HasToken(field, pad_token)
           /\ ~HasToken(field, sep_token)

\* the tuple example k gives rise to: its cleaned input parts followed by the
\* cleaned parts of its predicted span
TupleOf(k) ==
    CleanedParts(LoaderRows[k]) \o
    CleanedParts(SpanOf(LoaderRows[k], StartRows[k], EndRows[k]))

\* what has been yielded so far is one tuple per example, for the first
\* examples of the dataset in their order, and no batch has been given to the
\* model twice
C8_InOrderOncePerExample ==
    /\ Len(yielded) <= Len(LoaderRows)
    /\ \A b \in 1..Len(data_loader) : model_calls[b] <= 1
    /\ pc \in {"gp_loop", "gp_done"} =>
        /\ \A k \in 1..Len(yielded) : yielded[k] = TupleOf(k)
        /\ \A b \in 1..Len(data_loader) : model_calls[b] = IF b < batch_no THEN 1 ELSE 0
    /\ pc = "gp_done" => Len(yielded) = Len(LoaderRows)

\* C8: get_predictions yields exactly one tuple per example, in dataset
\* order, and then terminates; the k-th tuple is built from the k-th example's
\* input_ids and that example's start/end scores, and every batch is passed
\* to the model exactly once.
C8_OneTuplePerExampleThenStop ==
    /\ []C8_InOrderOncePerExample
    /\ <>(pc = "gp_done")

\* the generator is exhausted after two different examples with different
\* scores that gave different tuples
C8_Witness ==
    /\ pc = "gp_done"
    /\ Len(yielded) = 2
    /\ LoaderRows[1] # LoaderRows[2]
    /\ StartRows[1] # StartRows[2]
    /\ yielded[1] # yielded[2]

====
